---- MODULE Spec2Model ----
(***************************************************************************)
(* Construction Editor backend: the day_cells / rows store, the live API's *)
(* bulk upsert (backend/app.py), the audit sink, and the CSV importers     *)
(* (backend/backfill_from_csv.py, backend/import_csv.py).                  *)
(*                                                                         *)
(* The store is PostgreSQL (app.py:11-13, crud.py:3): a statement that     *)
(* fails inside a transaction leaves the transaction aborted, every later  *)
(* statement of it fails, and a row written by an open transaction is      *)
(* locked against other writers until that transaction ends.               *)
(***************************************************************************)
EXTENDS Integers, Sequences, FiniteSets, TLC

\* A nullable column or an optional JSON key: {} is NULL / absent, {v} is v.
Null == {}
Some(v) == {v}
ValOf(o) == CHOOSE v \in o : TRUE

\* ------------------------------------------------------------------ bounds
MaxBatch == 2        \* records in one bulk_upsert body
MaxCalls == 1        \* bulk_upsert requests of one client
MaxRuns == 1         \* importer runs in one behaviour
MaxLines == 3        \* data lines of one CSV file

\* ------------------------------------------------------- program constants
TaskMaxLen == 255    \* models.py: task = Column(String(255))
LaborMaxLen == 16    \* models.py: labor_code = Column(String(16))

VARIABLES
    rows,        \* table rows: set of [id, sheet_id, section, subsection, row_order]
    day_cells,   \* table day_cells (committed): set of [id, row_id, day, task, hours, labor_code]
    cell_seq,    \* last value of the day_cells id sequence
    audit_log,   \* table audit_log: sequence of [who, action, updated]
    req,         \* per API writer: the bulk_upsert request in progress
    commits,     \* the writers whose data transaction committed, in commit order
    calls,       \* per API writer: bulk_upsert requests started so far
    sheets,      \* table sheets: set of [id, name]
    sheet_seq,   \* last value of the sheets id sequence
    row_seq,     \* last value of the rows id sequence
    scan_order,  \* the order, fixed but unspecified, in which a SELECT without
                 \* ORDER BY returns the rows of an unchanged table
    imp,         \* the importer run in progress
    runs,        \* importer runs started so far
    conn         \* per concurrent importer connection: its row resolution in progress

vars == <<rows, day_cells, cell_seq, audit_log, req, commits, calls,
          sheets, sheet_seq, row_seq, scan_order, imp, runs, conn>>
\* What the API leaves alone, and what a single importer run leaves alone
impvars == <<sheets, sheet_seq, row_seq, scan_order, imp, runs, conn>>
apivars == <<req, commits, calls, conn>>

\* ===================================================================== texts
\* A text is a sequence of characters; NBSP and NNBSP stand for U+00A0 and
\* U+202F, TAB for U+0009.
UpperChars == <<"A","B","C","D","E","F","G","H","I","J","K","L","M",
                "N","O","P","Q","R","S","T","U","V","W","X","Y","Z">>
LowerChars == <<"a","b","c","d","e","f","g","h","i","j","k","l","m",
                "n","o","p","q","r","s","t","u","v","w","x","y","z">>
DigitChars == <<"0","1","2","3","4","5","6","7","8","9">>

Range(f) == {f[i] : i \in DOMAIN f}
UpperSet == Range(UpperChars)
LowerSet == Range(LowerChars)
DigitSet == Range(DigitChars)
IsUpper(c) == c \in UpperSet
IsLower(c) == c \in LowerSet
IsDigit(c) == c \in DigitSet
DigitVal(c) == (CHOOSE i \in DOMAIN DigitChars : DigitChars[i] = c) - 1
\* str.isspace(): what str.strip() and str.split() take for whitespace
IsSpace(c) == c \in {" ", "TAB", "NBSP", "NNBSP"}

\* str.lower()
LowerOf ==
    [c \in UpperSet |-> LowerChars[CHOOSE i \in DOMAIN UpperChars : UpperChars[i] = c]]
LowerChar(c) == IF IsUpper(c) THEN LowerOf[c] ELSE c
Lower(s) == [i \in DOMAIN s |-> LowerChar(s[i])]

\* " ".join(s.split()): the words of s, one space between them
RECURSIVE JoinWords(_, _, _)
JoinWords(s, acc, gap) ==
    IF s = <<>> THEN acc
    ELSE IF IsSpace(Head(s)) THEN JoinWords(Tail(s), acc, acc # <<>>)
    ELSE JoinWords(Tail(s), IF gap THEN acc \o <<" ", Head(s)>> ELSE Append(acc, Head(s)), FALSE)

\* str.strip()
RECURSIVE LStrip(_)
LStrip(s) == IF s # <<>> /\ IsSpace(Head(s)) THEN LStrip(Tail(s)) ELSE s
RECURSIVE RStrip(_)
RStrip(s) ==
    IF s # <<>> /\ IsSpace(s[Len(s)]) THEN RStrip(SubSeq(s, 1, Len(s) - 1)) ELSE s
Strip(s) == RStrip(LStrip(s))

\* s.replace(NBSP, " ").replace(NNBSP, " ")
ReplaceNbsp(s) == [i \in DOMAIN s |-> IF s[i] \in {"NBSP", "NNBSP"} THEN " " ELSE s[i]]

\* backfill_from_csv.norm_spaces
norm_spaces(s) == JoinWords(Strip(ReplaceNbsp(s)), <<>>, FALSE)

\* unicodedata.normalize("NFKC", s) on the characters of the model: the
\* no-break spaces decompose to a space, every other character is kept.
Nfkc(s) == ReplaceNbsp(s)

\* re.sub(r"[^0-9A-Za-z ]+", " ", s)
SubNonAlnum(s) ==
    [i \in DOMAIN s |->
        IF IsUpper(s[i]) \/ IsLower(s[i]) \/ IsDigit(s[i]) \/ s[i] = " " THEN s[i] ELSE " "]

\* backfill_from_csv.canon
canon(s) == Lower(JoinWords(SubNonAlnum(ReplaceNbsp(Nfkc(s))), <<>>, FALSE))

\* ------------------------------------------------------ the section registry
T_Outside == <<"O", "u", "t", "s", "i", "d", "e">>
T_GroundFloor == <<"G", "r", "o", "u", "n", "d", " ", "F", "l", "o", "o", "r">>
T_1stFloor == <<"1", "s", "t", " ", "F", "l", "o", "o", "r">>
T_Roof == <<"R", "o", "o", "f">>
T_WasteRemoval == <<"W", "a", "s", "t", "e", " ", "R", "e", "m", "o", "v", "a", "l">>
T_StaffingExpenses == <<"S", "t", "a", "f", "f", "i", "n", "g", " ", "e", "x", "p", "e", "n", "s", "e", "s">>
T_StaffingNeeded == <<"S", "t", "a", "f", "f", "i", "n", "g", " ", "N", "e", "e", "d", "e", "d">>

T_Demo == <<"D", "e", "m", "o">>
T_Prep == <<"P", "r", "e", "p">>
T_L1 == <<"L", "1">>
T_Entry == <<"E", "n", "t", "r", "y">>

PRIMARY_SECTIONS ==
    <<T_Outside, T_GroundFloor, T_1stFloor, T_Roof, T_WasteRemoval,
      T_StaffingExpenses, T_StaffingNeeded>>
PRIMARY_CANON == {canon(PRIMARY_SECTIONS[i]) : i \in DOMAIN PRIMARY_SECTIONS}
CanonOfPrimary == [i \in DOMAIN PRIMARY_SECTIONS |-> canon(PRIMARY_SECTIONS[i])]

is_section_label(cell_value) == canon(cell_value) \in PRIMARY_CANON

\* `if current_section in ("Roof", "Staffing expenses")`
IsSingleRow(section) == section \in {Some(T_Roof), Some(T_StaffingExpenses)}

\* The label of the line kept as the section, as the file writes it
SectionAsWritten(name) == name

\* for s in PRIMARY_SECTIONS: if canon(s) == c: current_section = s; break
SectionOf(name) ==
    LET c == canon(name)
    IN  PRIMARY_SECTIONS[CHOOSE i \in DOMAIN PRIMARY_SECTIONS :
                            /\ CanonOfPrimary[i] = c
                            /\ \A j \in 1..(i-1) : CanonOfPrimary[j] # c]

\* ================================================================= CSV input
T_Name == <<"N", "a", "m", "e">>
T_Day1 == <<"D", "a", "y", " ", "1">>
T_Time1 == <<"T", "i", "m", "e", " ", "1">>
T_Labor1 == <<"L", "a", "b", "o", "r", " ", "1">>
T_Notes == <<"N", "o", "t", "e", "s">>
T_Hall == <<"H", "a", "l", "l">>
T_4p5 == <<"4", ".", "5">>

\* Header rows of the input files: one day with its three columns, and one
\* with no "Day N" column at all.
CsvHeaders == { <<T_Name, T_Day1, T_Time1, T_Labor1>>, <<T_Name, T_Notes>> }

\* Data lines of the input files, as csv.reader returns them.
CsvLines ==
    { <<T_Outside, <<>>, <<>>, <<>>>>,
      <<T_Roof, <<>>, <<>>, <<>>>>,
      <<T_Entry, T_Demo, T_4p5, T_L1>>,
      <<T_Entry, T_Prep, <<>>, <<>>>>,
      <<<<>>, T_Demo, <<>>, <<>>>>,
      <<T_Hall, <<>>, <<>>, <<>>>> }

\* row[idx] if idx < len(row) else ""   (idx counts from 0)
CellAt(row, idx) == IF idx < Len(row) THEN row[idx + 1] ELSE <<>>

AllDigits(s) == s # <<>> /\ \A i \in DOMAIN s : IsDigit(s[i])
RECURSIVE DigitsVal(_)
DigitsVal(s) == IF s = <<>> THEN 0 ELSE 10 * DigitsVal(SubSeq(s, 1, Len(s) - 1)) + DigitVal(s[Len(s)])

\* re.compile(r"^\s*<word>\s*(\d+)\s*$", re.I).match(h): {} or {int(group(1))}
MatchWordNum(word, h) ==
    LET t == Strip(h)
        rest == LStrip(SubSeq(t, Len(word) + 1, Len(t)))
    IN  IF Len(t) > Len(word) /\ Lower(SubSeq(t, 1, Len(word))) = word /\ AllDigits(rest)
        THEN Some(DigitsVal(rest)) ELSE Null
DAY_RE(h) == MatchWordNum(<<"d","a","y">>, h)
TIME_RE(h) == MatchWordNum(<<"t","i","m","e">>, h)
LABOR_RE(h) == MatchWordNum(<<"l","a","b","o","r">>, h)

\* The column (counted from 0) of each day: the if / elif chain over the
\* header cells, a later column of the same day replacing an earlier one.
ColKind(h) ==
    LET m1 == DAY_RE(h)
        m2 == TIME_RE(h)
        m3 == LABOR_RE(h)
    IN  IF h = <<>> THEN [kind |-> "none", d |-> 0]
        ELSE IF m1 # Null THEN [kind |-> "day", d |-> ValOf(m1)]
        ELSE IF m2 # Null THEN [kind |-> "time", d |-> ValOf(m2)]
        ELSE IF m3 # Null THEN [kind |-> "labor", d |-> ValOf(m3)]
        ELSE [kind |-> "none", d |-> 0]

\* day_cols / time_cols / labor_cols of a header row: ColsOf(kinds, "day") ...
\* where kinds[i] = ColKind(header[i]).
ColsOf(kinds, kind) ==
    LET hit(d) == {i \in DOMAIN kinds : kinds[i] = [kind |-> kind, d |-> d]}
        ds == {kinds[i].d : i \in {j \in DOMAIN kinds : kinds[j].kind = kind}}
    IN  [d \in ds |-> (CHOOSE i \in hit(d) : \A j \in hit(d) : j <= i) - 1]

\* sorted(day_cols)
RECURSIVE SortedSeq(_)
SortedSeq(S) ==
    IF S = {} THEN <<>>
    ELSE LET m == CHOOSE x \in S : \A y \in S : x <= y IN <<m>> \o SortedSeq(S \ {m})

\* float(x) for the texts of the model: an optional sign, digits, and at most
\* one decimal; the value is counted in tenths. Any other text of the model
\* raises ValueError.
Float(x) ==
    LET signed == x # <<>> /\ x[1] \in {"+", "-"}
        body == IF signed THEN Tail(x) ELSE x
        dots == {i \in DOMAIN body : body[i] = "."}
        p == CHOOSE i \in dots : TRUE
        whole == IF dots = {} THEN body ELSE SubSeq(body, 1, p - 1)
        frac == IF dots = {} THEN <<>> ELSE SubSeq(body, p + 1, Len(body))
        mag == 10 * DigitsVal(whole) + DigitsVal(frac)
    IN  IF /\ Cardinality(dots) <= 1
           /\ whole \o frac # <<>>
           /\ \A i \in DOMAIN whole : IsDigit(whole[i])
           /\ \A i \in DOMAIN frac : IsDigit(frac[i])
           /\ Len(frac) <= 1
        THEN Some(IF signed /\ x[1] = "-" THEN 0 - mag ELSE mag)
        ELSE Null

\* backfill_from_csv.parse_float
parse_float(x) == LET s == norm_spaces(x) IN IF s = <<>> THEN Null ELSE Float(s)

\* --------------------------------------------------------- SQL: day_cells
CellsAt(table, rid, day) == {c \in table : c.row_id = rid /\ c.day = day}

RowIds == {r.id : r \in rows}

\* INSERT INTO day_cells (...) VALUES (...) ON CONFLICT (row_id, day) DO UPDATE
\* SET task=EXCLUDED.task, hours=EXCLUDED.hours, labor_code=EXCLUDED.labor_code
\* on `table` (what the transaction sees), with the id sequence at `seq`;
\* `known` are the ids of the rows the transaction sees (day_cells.row_id
\* references rows.id).
\* A variant that keeps a stored field where the record has none:
\* SET task = COALESCE(EXCLUDED.task, day_cells.task), ...
OnConflictCoalesce(c, task, hrs, lab) ==
    [c EXCEPT !.task = IF task = Null THEN @ ELSE task,
              !.hours = IF hrs = Null THEN @ ELSE hrs,
              !.labor_code = IF lab = Null THEN @ ELSE lab]

OnConflictDoUpdate(c, task, hrs, lab) ==
    [c EXCEPT !.task = task, !.hours = hrs, !.labor_code = lab]

\* A variant without the ON CONFLICT clause on a table without
\* uq_day_cells_row_day: every statement adds a row.
SqlInsertNoConflict(table, seq, known, rid, day, task, hrs, lab) ==
    IF rid \notin known
    THEN [ok |-> FALSE, err |-> "ForeignKeyViolation", table |-> table, seq |-> seq]
    ELSE [ok |-> TRUE, err |-> "",
          table |-> table \cup {[id |-> seq + 1, row_id |-> rid, day |-> day,
                                 task |-> task, hours |-> hrs, labor_code |-> lab]},
          seq |-> seq + 1]

SqlUpsertCell(table, seq, known, rid, day, task, hrs, lab) ==
    IF rid \notin known
    THEN [ok |-> FALSE, err |-> "ForeignKeyViolation", table |-> table, seq |-> seq]
    ELSE IF (task # Null /\ Len(ValOf(task)) > TaskMaxLen)
            \/ (lab # Null /\ Len(ValOf(lab)) > LaborMaxLen)
    THEN [ok |-> FALSE, err |-> "StringDataRightTruncation", table |-> table, seq |-> seq]
    ELSE IF CellsAt(table, rid, day) # {}
    THEN [ok |-> TRUE, err |-> "",
          table |-> {IF c.row_id = rid /\ c.day = day
                     THEN OnConflictDoUpdate(c, task, hrs, lab) ELSE c : c \in table},
          seq |-> seq]
    ELSE [ok |-> TRUE, err |-> "",
          table |-> table \cup {[id |-> seq + 1, row_id |-> rid, day |-> day,
                                 task |-> task, hours |-> hrs, labor_code |-> lab]},
          seq |-> seq + 1]

\* UPDATE day_cells SET task=.., hours=.., labor_code=.. WHERE row_id=.. AND day=..
\* `aborted`: an earlier statement of the transaction failed.
SqlUpdateCell(aborted, table, rid, day, task, hrs, lab) ==
    IF aborted
    THEN [ok |-> FALSE, err |-> "InFailedSqlTransaction", rowcount |-> 0, table |-> table]
    ELSE [ok |-> TRUE, err |-> "", rowcount |-> Cardinality(CellsAt(table, rid, day)),
          table |-> {IF c.row_id = rid /\ c.day = day
                     THEN OnConflictDoUpdate(c, task, hrs, lab) ELSE c : c \in table}]

\* INSERT INTO day_cells (...) VALUES (...)   (uq_day_cells_row_day applies)
SqlInsertCell(aborted, table, seq, known, rid, day, task, hrs, lab) ==
    IF aborted
    THEN [ok |-> FALSE, err |-> "InFailedSqlTransaction", table |-> table, seq |-> seq]
    ELSE IF rid \notin known
    THEN [ok |-> FALSE, err |-> "ForeignKeyViolation", table |-> table, seq |-> seq]
    ELSE IF CellsAt(table, rid, day) # {}
    THEN [ok |-> FALSE, err |-> "UniqueViolation", table |-> table, seq |-> seq + 1]
    ELSE [ok |-> TRUE, err |-> "",
          table |-> table \cup {[id |-> seq + 1, row_id |-> rid, day |-> day,
                                 task |-> task, hours |-> hrs, labor_code |-> lab]},
          seq |-> seq + 1]

\* ============================================================== SQL: rows
SheetIds == {sh.id : sh \in sheets}

\* cur.fetchone() of a SELECT without ORDER BY: the first of the matching
\* rows in the scan order of the table.
FetchOne(ids) ==
    IF ids = {} THEN Null
    ELSE Some(IF scan_order = "asc" THEN CHOOSE i \in ids : \A j \in ids : i <= j
                                    ELSE CHOOSE i \in ids : \A j \in ids : j <= i)

\* SELECT COALESCE(MAX(row_order),0)+1 FROM rows WHERE sheet_id=%s
next_row_order(table, sheet_id) ==
    LET os == {r.row_order : r \in {q \in table : q.sheet_id = sheet_id}}
    IN  IF os = {} THEN 1 ELSE (CHOOSE o \in os : \A x \in os : x <= o) + 1

\* A variant that compares the subsection with `=` alone: in SQL
\* `subsection = NULL` matches no row.
find_row_by_equality(table, sheet_id, section, subsection) ==
    IF subsection = Null THEN Null
    ELSE FetchOne({r.id : r \in {q \in table : /\ q.sheet_id = sheet_id
                                                /\ q.section = section
                                                /\ q.subsection # Null
                                                /\ q.subsection = subsection}})

\* SELECT id FROM rows WHERE sheet_id=%s AND section=%s AND subsection IS NULL
\* / AND subsection=%s
find_existing_row(table, sheet_id, section, subsection) ==
    IF subsection = Null
    THEN FetchOne({r.id : r \in {q \in table : /\ q.sheet_id = sheet_id
                                                /\ q.section = section
                                                /\ q.subsection = Null}})
    ELSE FetchOne({r.id : r \in {q \in table : /\ q.sheet_id = sheet_id
                                                /\ q.section = section
                                                /\ q.subsection # Null
                                                /\ q.subsection = subsection}})

\* INSERT INTO rows (sheet_id, section, subsection, row_order) VALUES (...)
\* RETURNING id      (rows.sheet_id references sheets.id; `sheet_ids` are the
\* sheets the transaction sees)
SqlInsertRow(table, seq, sheet_ids, sheet_id, section, subsection, ro) ==
    IF sheet_id \notin sheet_ids
    THEN [ok |-> FALSE, rid |-> 0, rows |-> table, seq |-> seq + 1]
    ELSE [ok |-> TRUE, rid |-> seq + 1,
          rows |-> table \cup {[id |-> seq + 1, sheet_id |-> sheet_id, section |-> section,
                                subsection |-> subsection, row_order |-> ro]},
          seq |-> seq + 1]

get_or_create_row_id(table, seq, sheet_ids, sheet_id, section, subsection) ==
    LET rid == find_existing_row(table, sheet_id, section, subsection) IN
    IF rid # Null /\ ValOf(rid) # 0
    THEN [ok |-> TRUE, rid |-> ValOf(rid), rows |-> table, seq |-> seq]
    ELSE SqlInsertRow(table, seq, sheet_ids, sheet_id, section, subsection,
                      next_row_order(table, sheet_id))

\* backfill_from_csv.upsert_cell
upsert_cell(table, seq, known, rid, day, task, hours, labor) ==
    SqlUpsertCell(table, seq, known, rid, day, task, hours, labor)

\* ================================================== backfill_from_csv.main
ImpIdle ==
    [pc |-> "idle", tool |-> "", sheet |-> 0, dry |-> FALSE, header |-> <<>>, n |-> 0,
     day_cols |-> <<>>, time_cols |-> <<>>, labor_cols |-> <<>>,
     triplets |-> <<>>, current_section |-> Null, single_row_id |-> Null,
     cells_detected |-> 0,
     tx_sheets |-> {}, tx_rows |-> {}, tx_cells |-> {}, row_order |-> 0, records |-> <<>>,
     audit |-> "none", pre |-> [sheets |-> {}, rows |-> {}, day_cells |-> {}],
     exit |-> ""]

Store == [sheets |-> sheets, rows |-> rows, day_cells |-> day_cells]

\* --name-col-index 0: the label column is the first one.
name_col_idx == 0

\* Reading the file, mapping the columns, psycopg2.connect. file_header = {}
\* is a file without any line: SystemExit("CSV appears empty.").
BackfillStart(sheet, file_header, dry) ==
    /\ imp.pc \in {"idle", "done"}
    /\ runs < MaxRuns
    /\ runs' = runs + 1
    /\ IF file_header = Null
       THEN imp' = [ImpIdle EXCEPT !.pc = "done", !.tool = "backfill", !.pre = Store,
                                   !.exit = "error"]
       ELSE LET header == [i \in DOMAIN ValOf(file_header) |->
                                norm_spaces(ValOf(file_header)[i])]
                kinds == [i \in DOMAIN header |-> ColKind(header[i])]
            IN  imp' = [ImpIdle EXCEPT !.pc = "scan", !.tool = "backfill",
                            !.sheet = sheet, !.dry = dry, !.pre = Store, !.header = header,
                            !.day_cols = ColsOf(kinds, "day"),
                            !.time_cols = ColsOf(kinds, "time"),
                            !.labor_cols = ColsOf(kinds, "labor"),
                            !.tx_sheets = sheets, !.tx_rows = rows, !.tx_cells = day_cells]
    /\ UNCHANGED <<apivars, audit_log, rows, day_cells, cell_seq, sheets, sheet_seq,
                   row_seq, scan_order>>

\* for d in sorted(day_cols): ... upsert_cell(conn, rid, d, task, hours, labor)
\* acc = [ok, table, seq, detected]: the cells, the id sequence and
\* cells_detected so far; ok = FALSE once an upsert has raised.
RECURSIVE BackfillDays(_, _, _, _, _)
BackfillDays(ds, row, rid, known, acc) ==
    IF ds = <<>> \/ ~acc.ok THEN acc
    ELSE
      LET d == Head(ds)
          t_idx == imp.time_cols
          l_idx == imp.labor_cols
          task == norm_spaces(CellAt(row, imp.day_cols[d]))
          hours == IF d \in DOMAIN t_idx /\ t_idx[d] < Len(row)
                   THEN parse_float(row[t_idx[d] + 1]) ELSE Null
          labor == IF d \in DOMAIN l_idx /\ l_idx[d] < Len(row)
                   THEN Some(norm_spaces(row[l_idx[d] + 1])) ELSE Null
          u == upsert_cell(acc.table, acc.seq, known, rid, d, Some(task), hours, labor)
      IN  BackfillDays(Tail(ds), row, rid, known,
            IF ~(task # <<>> \/ hours # Null \/ (labor # Null /\ labor # Some(<<>>)))
            THEN acc
            ELSE IF imp.dry THEN [acc EXCEPT !.detected = @ + 1]
            ELSE [ok |-> u.ok, table |-> u.table, seq |-> u.seq,
                  detected |-> acc.detected + 1])

\* An exception inside the try block: `finally: conn.close()` drops the
\* connection with its transaction open, which rolls it back.
ImportCrash ==
    imp' = [imp EXCEPT !.pc = "done", !.exit = "error",
                       !.tx_sheets = {}, !.tx_rows = {}, !.tx_cells = {}]

\* One pass of `for ridx, row in enumerate(data, start=1)`.
BackfillLine(row) ==
    /\ imp.pc = "scan" /\ imp.tool = "backfill"
    /\ imp.n < MaxLines
    /\ LET name == norm_spaces(CellAt(row, name_col_idx))
           skip == /\ imp' = [imp EXCEPT !.n = @ + 1]
                   /\ UNCHANGED <<row_seq, cell_seq>>
           days(rid, table) ==
               LET known == {r.id : r \in table}
                   acc == BackfillDays(SortedSeq(DOMAIN imp.day_cols), row, rid, known,
                                       [ok |-> TRUE, table |-> imp.tx_cells,
                                        seq |-> cell_seq, detected |-> imp.cells_detected])
               IN  /\ cell_seq' = acc.seq
                   /\ IF acc.ok
                      THEN imp' = [imp EXCEPT !.n = @ + 1, !.tx_rows = table,
                                       !.tx_cells = acc.table,
                                       !.cells_detected = acc.detected]
                      ELSE ImportCrash
       IN  IF is_section_label(name)
           THEN LET sec == SectionOf(name)
                    g == get_or_create_row_id(imp.tx_rows, row_seq, SheetIds, imp.sheet, sec, Null)
                IN  IF ~IsSingleRow(Some(sec))
                    THEN /\ imp' = [imp EXCEPT !.n = @ + 1, !.current_section = Some(sec),
                                                   !.single_row_id = Null]
                         /\ UNCHANGED <<row_seq, cell_seq>>
                    ELSE /\ row_seq' = g.seq
                         /\ UNCHANGED cell_seq
                         /\ IF g.ok
                            THEN imp' = [imp EXCEPT !.n = @ + 1,
                                             !.current_section = Some(sec),
                                             !.single_row_id = Some(g.rid),
                                             !.tx_rows = g.rows]
                            ELSE ImportCrash
           ELSE IF imp.current_section = Null THEN skip
           ELSE IF IsSingleRow(imp.current_section)
           THEN /\ days(ValOf(imp.single_row_id), imp.tx_rows)
                /\ UNCHANGED row_seq
           ELSE IF name = <<>> THEN skip
           ELSE LET g == get_or_create_row_id(imp.tx_rows, row_seq, SheetIds, imp.sheet,
                                              ValOf(imp.current_section), Some(name))
                IN  /\ row_seq' = g.seq
                    /\ IF g.ok THEN days(g.rid, g.rows)
                       ELSE ImportCrash /\ UNCHANGED cell_seq
    /\ UNCHANGED <<apivars, audit_log, rows, day_cells, sheets, sheet_seq, scan_order, runs>>

\* After the loop: conn.rollback() on --dry, else conn.commit(); conn.close().
BackfillFinish ==
    /\ imp.pc = "scan" /\ imp.tool = "backfill"
    /\ imp' = [imp EXCEPT !.pc = "done", !.exit = "ok",
                          !.tx_sheets = {}, !.tx_rows = {}, !.tx_cells = {}]
    /\ IF imp.dry
       THEN UNCHANGED <<rows, day_cells>>
       ELSE rows' = imp.tx_rows /\ day_cells' = imp.tx_cells
    /\ UNCHANGED <<apivars, audit_log, cell_seq, sheets, sheet_seq, row_seq, scan_order, runs>>

\* ==================================================== import_csv.import_csv
\* The module is taken as loaded: crud.py imports a model class AuditLog that
\* models.py does not declare; the audit sink it maps is the audit_log table.

\* float("nan"): not a number of tenths that any text of the model denotes.
NaN == 0 - 1000001

\* str.startswith
StartsWith(s, p) == Len(s) >= Len(p) /\ SubSeq(s, 1, Len(p)) = p

\* s.split()[-1] of a text with at least one word
LastWord(s) ==
    LET t == RStrip(s)
        gaps == {i \in DOMAIN t : IsSpace(t[i])}
        k == IF gaps = {} THEN 0 ELSE CHOOSE i \in gaps : \A j \in gaps : j <= i
    IN  SubSeq(t, k + 1, Len(t))

\* s.replace(",", "")
RemoveCommas(s) == SelectSeq(s, LAMBDA c : c # ",")

CANON_SECTIONS == {T_Outside, T_GroundFloor, T_1stFloor, T_Roof}
T_first_floor == <<"f", "i", "r", "s", "t", " ", "f", "l", "o", "o", "r">>

normalize_section(label) ==
    LET lab == Strip(label)
    IN  IF lab \in CANON_SECTIONS THEN Some(lab)
        ELSE IF Lower(lab) = T_first_floor THEN Some(T_1stFloor)
        ELSE Null

\* pd.read_csv: an empty field is read as NaN
IsNa(cell) == cell = <<>>

as_text(v) ==
    LET s == Strip(v)
    IN  IF IsNa(v) \/ s = <<>> THEN Null ELSE Some(s)

\* str(nan) is "nan" and float("nan") does not raise
as_float(v) ==
    LET s == RemoveCommas(Strip(v))
    IN  IF IsNa(v) THEN Some(NaN)
        ELSE IF s = <<>> THEN Null
        ELSE Float(s)

\* any(ch.isalpha() for ch in maybe_task)
AnyAlpha(s) == \E i \in DOMAIN s : IsUpper(s[i]) \/ IsLower(s[i])

\* lines 25-34: (dc, tcol, lcol, d) with the columns counted from 0; tc and
\* lc are the next two columns when the header has them.
Triplets(cols) ==
    LET isday(i) == /\ StartsWith(Lower(Strip(cols[i])), <<"d", "a", "y", " ">>)
                    /\ AllDigits(LastWord(cols[i]))
        idx == SortedSeq({i \in DOMAIN cols : isday(i)})
    IN  [k \in DOMAIN idx |->
            [dc |-> idx[k] - 1,
             tc |-> IF idx[k] + 1 <= Len(cols) THEN Some(idx[k]) ELSE Null,
             lc |-> IF idx[k] + 2 <= Len(cols) THEN Some(idx[k] + 1) ELSE Null,
             d |-> DigitsVal(LastWord(cols[idx[k]]))]]

\* crud.get_or_create_sheet
get_or_create_sheet(table, seq, name) ==
    LET r == {sh.id : sh \in {x \in table : x.name = name}}
    IN  IF r # {} /\ ValOf(r) # 0
        THEN [sheet_id |-> ValOf(r), sheets |-> table, seq |-> seq]
        ELSE [sheet_id |-> seq + 1, sheets |-> table \cup {[id |-> seq + 1, name |-> name]},
              seq |-> seq + 1]

\* pd.read_csv, the triplets, SessionLocal(), get_or_create_sheet and the
\* clearing of the sheet's prior rows and cells.
ImportCsvStart(sheet_name, file_header) ==
    /\ imp.pc \in {"idle", "done"}
    /\ runs < MaxRuns
    /\ runs' = runs + 1
    /\ IF file_header = Null \/ Triplets(ValOf(file_header)) = <<>>
       THEN /\ imp' = [ImpIdle EXCEPT !.pc = "done", !.tool = "import_csv", !.pre = Store,
                                      !.header = IF file_header = Null THEN <<>>
                                                 ELSE ValOf(file_header),
                                      !.exit = "error"]
            /\ UNCHANGED sheet_seq
       ELSE LET g == get_or_create_sheet(sheets, sheet_seq, sheet_name)
                row_ids == {r.id : r \in {q \in rows : q.sheet_id = g.sheet_id}}
            IN  /\ sheet_seq' = g.seq
                /\ imp' = [ImpIdle EXCEPT !.pc = "scan", !.tool = "import_csv",
                               !.sheet = g.sheet_id, !.pre = Store,
                               !.header = ValOf(file_header),
                               !.triplets = Triplets(ValOf(file_header)),
                               !.tx_sheets = g.sheets,
                               !.tx_rows = {q \in rows : q.sheet_id # g.sheet_id},
                               !.tx_cells = {c \in day_cells : c.row_id \notin row_ids}]
    /\ UNCHANGED <<apivars, audit_log, rows, day_cells, cell_seq, sheets, row_seq, scan_order>>

\* lines 91-105: the records of one data line, one triplet after the other
RECURSIVE LineRecords(_, _, _)
LineRecords(ts, r, row_id) ==
    IF ts = <<>> THEN <<>>
    ELSE
      LET t == Head(ts)
          task0 == as_text(CellAt(r, t.dc))
          hours == IF t.tc # Null THEN as_float(CellAt(r, ValOf(t.tc))) ELSE Null
          labor == IF t.lc # Null THEN as_text(CellAt(r, ValOf(t.lc))) ELSE Null
          maybe_task == IF t.tc # Null THEN as_text(CellAt(r, ValOf(t.tc))) ELSE Null
          task == IF task0 = Null /\ hours = Null /\ maybe_task # Null
                     /\ AnyAlpha(ValOf(maybe_task))
                  THEN maybe_task ELSE task0
      IN  (IF task = Null /\ hours = Null /\ labor = Null THEN <<>>
           ELSE <<[row_id |-> row_id, day |-> t.d, task |-> task, hours |-> hours,
                   labor_code |-> labor]>>)
          \o LineRecords(Tail(ts), r, row_id)

\* One pass of `for _, r in df.iterrows()`.
ImportCsvLine(r) ==
    /\ imp.pc = "scan" /\ imp.tool = "import_csv"
    /\ imp.n < MaxLines
    /\ LET first == CellAt(r, 0)
           label == IF IsNa(first) THEN Null ELSE Some(Strip(first))
           content(idx) == ~IsNa(CellAt(r, idx))
           blank == ~\E i \in DOMAIN imp.triplets :
                       \/ content(imp.triplets[i].dc)
                       \/ imp.triplets[i].tc # Null /\ content(ValOf(imp.triplets[i].tc))
                       \/ imp.triplets[i].lc # Null /\ content(ValOf(imp.triplets[i].lc))
           canon_label == normalize_section(IF label = Null THEN <<>> ELSE ValOf(label))
           subsection == IF label = Null \/ label = Some(<<>>) THEN <<>> ELSE ValOf(label)
           ins == SqlInsertRow(imp.tx_rows, row_seq, {sh.id : sh \in imp.tx_sheets},
                               imp.sheet, ValOf(imp.current_section),
                               Some(subsection), imp.row_order + 1)
       IN  IF blank
           THEN /\ imp' = [imp EXCEPT !.n = @ + 1,
                               !.current_section =
                                   IF canon_label # Null THEN canon_label ELSE @]
                /\ UNCHANGED row_seq
           ELSE IF imp.current_section = Null
           THEN imp' = [imp EXCEPT !.n = @ + 1] /\ UNCHANGED row_seq
           ELSE /\ row_seq' = ins.seq
                /\ IF ins.ok
                   THEN imp' = [imp EXCEPT !.n = @ + 1, !.row_order = @ + 1,
                                    !.tx_rows = ins.rows,
                                    !.records = @ \o LineRecords(imp.triplets, r, ins.rid)]
                   ELSE ImportCrash
    /\ UNCHANGED <<apivars, audit_log, rows, day_cells, cell_seq, sheets, sheet_seq,
                   scan_order, runs>>

\* crud.bulk_upsert_cells: one INSERT ... VALUES (...), (...) ON CONFLICT
\* (row_id, day) DO UPDATE; two records of the statement with the same key
\* make it fail ("cannot affect row a second time").
RECURSIVE UpsertAll(_, _, _)
UpsertAll(records, known, acc) ==
    IF records = <<>> \/ ~acc.ok THEN acc
    ELSE LET x == Head(records)
             u == SqlUpsertCell(acc.table, acc.seq, known, x.row_id, x.day,
                                x.task, x.hours, x.labor_code)
         IN  UpsertAll(Tail(records), known,
                       [ok |-> u.ok, table |-> u.table, seq |-> u.seq])

bulk_upsert_cells(table, seq, known, records) ==
    IF \E i, j \in DOMAIN records :
           i # j /\ records[i].row_id = records[j].row_id /\ records[i].day = records[j].day
    THEN [ok |-> FALSE, table |-> table, seq |-> seq]
    ELSE UpsertAll(records, known, [ok |-> TRUE, table |-> table, seq |-> seq])

\* crud.audit
CrudAuditEntry(n) == [op |-> "bulk_upsert", obj |-> "day_cell", meta |-> n]

\* bulk_upsert_cells(db, records); db.commit(); finally db.close().
\* audit() runs in the session's transaction: when its INSERT fails the
\* exception is passed over, the transaction is left aborted, and the COMMIT
\* that db.commit() sends ends it as a rollback.
ImportCsvEnd(audit_fails) ==
    /\ imp.pc = "scan" /\ imp.tool = "import_csv"
    /\ LET u == bulk_upsert_cells(imp.tx_cells, cell_seq, {q.id : q \in imp.tx_rows},
                                  imp.records)
           aborted == imp.records # <<>> /\ audit_fails
       IN  /\ cell_seq' = u.seq
           /\ IF ~u.ok
              THEN ImportCrash /\ UNCHANGED <<sheets, rows, day_cells, audit_log>>
              ELSE /\ imp' = [imp EXCEPT !.pc = "done", !.exit = "ok", !.tx_sheets = {},
                                         !.tx_rows = {}, !.tx_cells = {},
                                         !.audit = IF imp.records = <<>> THEN "none"
                                                   ELSE IF audit_fails THEN "failed"
                                                   ELSE "ok"]
                   /\ IF aborted
                      THEN UNCHANGED <<sheets, rows, day_cells, audit_log>>
                      ELSE /\ sheets' = imp.tx_sheets
                           /\ rows' = imp.tx_rows
                           /\ day_cells' = u.table
                           /\ audit_log' = IF imp.records = <<>> THEN audit_log
                                           ELSE Append(audit_log,
                                                       CrudAuditEntry(Len(imp.records)))
    /\ UNCHANGED <<apivars, sheet_seq, row_seq, scan_order, runs>>

\* ------------------------------------------------- API: POST /cells/bulk_upsert
Writers == {1, 2}
Days == {1, 2}       \* the days a request may address

PFull == [task |-> Some(T_Demo), hours |-> Some(45), labor_code |-> Some(T_L1)]
PTask == [task |-> Some(T_Prep), hours |-> Null, labor_code |-> Null]
PNull == [task |-> Null, hours |-> Null, labor_code |-> Null]
Payloads == {PFull, PTask, PNull}

Rec(rid, day, p) ==
    [row_id |-> rid, day |-> day, task |-> p.task, hours |-> p.hours,
     labor_code |-> p.labor_code]

\* The records a body may carry: well-formed ones for row 1, one for a row id
\* that is in no sheet, one without "row_id", and one whose task does not fit
\* the column.
GoodRecords == {Rec(Some(1), Some(d), p) : d \in Days, p \in Payloads}
BadRecords ==
    { Rec(Some(2), Some(1), PFull),
      Rec(Null, Some(1), PFull),
      Rec(Some(1), Some(1), [PFull EXCEPT !.task = Some([i \in 1..(TaskMaxLen + 1) |-> "x"])]) }
ApiRecords == GoodRecords \cup BadRecords

SeqsUpTo(S, n) == UNION {[1..k -> S] : k \in 0..n}

Idle == [pc |-> "idle", records |-> <<>>, i |-> 1, updated |-> 0, writes |-> {},
         pre |-> {}, cause |-> "", result |-> [status |-> "none", updated |-> 0]]

\* What writer w's open transaction sees: the committed table with the rows
\* it has written itself.
View(w) ==
    {c \in day_cells : CellsAt(req[w].writes, c.row_id, c.day) = {}} \cup req[w].writes

InTx(w) == req[w].pc = "tx"

LockedByOther(w, rid, day) ==
    \E v \in Writers \ {w} : InTx(v) /\ CellsAt(req[v].writes, rid, day) # {}

\* The call without the `if not records` early return: an empty batch opens
\* the transaction like any other.
BulkUpsertNoEarlyReturn(w, records) ==
    /\ req[w].pc \in {"idle", "done"}
    /\ calls[w] < MaxCalls
    /\ calls' = [calls EXCEPT ![w] = @ + 1]
    /\ req' = [req EXCEPT ![w] = [Idle EXCEPT !.pc = "tx", !.records = records,
                                    !.pre = day_cells]]
    /\ UNCHANGED <<impvars, rows, day_cells, cell_seq, audit_log, commits>>

\* body.get("records", []) or []; the early return; engine.begin()
BulkUpsertCall(w, records) ==
    /\ req[w].pc \in {"idle", "done"}
    /\ calls[w] < MaxCalls
    /\ calls' = [calls EXCEPT ![w] = @ + 1]
    /\ IF records = <<>>
       THEN req' = [req EXCEPT ![w] = [Idle EXCEPT !.pc = "done", !.pre = day_cells,
                                       !.result = [status |-> "ok", updated |-> 0]]]
       ELSE req' = [req EXCEPT ![w] = [Idle EXCEPT !.pc = "tx", !.records = records,
                                       !.pre = day_cells]]
    /\ UNCHANGED <<impvars, rows, day_cells, cell_seq, audit_log, commits>>

\* An exception leaves the `with engine.begin()` block: the transaction is
\* rolled back and the caller is answered with an error.
Raise(w, cause) ==
    req' = [req EXCEPT ![w] = [@ EXCEPT !.pc = "done", !.writes = {}, !.cause = cause,
                                        !.result = [status |-> "error", updated |-> 0]]]

\* The rows w's transaction has written (and holds locked) once its statement
\* on (rid, day) has turned what it saw into `table`.
Written(w, table, rid, day) ==
    {c \in table : \/ c.row_id = rid /\ c.day = day
                   \/ CellsAt(req[w].writes, c.row_id, c.day) # {}}

\* One pass of `for rec in records`.
ExecRecord(w) ==
    /\ InTx(w)
    /\ req[w].i <= Len(req[w].records)
    /\ LET rec == req[w].records[req[w].i] IN
       IF rec.row_id = Null \/ rec.day = Null
       THEN /\ Raise(w, "KeyError")
            /\ UNCHANGED cell_seq
       ELSE LET rid == ValOf(rec.row_id)
                day == ValOf(rec.day)
                r1 == SqlUpsertCell(View(w), cell_seq, RowIds, rid, day,
                                    rec.task, rec.hours, rec.labor_code)
                \* except Exception: UPDATE, then INSERT when no row matched
                r2 == SqlUpdateCell(~r1.ok, r1.table, rid, day,
                                    rec.task, rec.hours, rec.labor_code)
                r3 == SqlInsertCell(~r1.ok, r2.table, r1.seq, RowIds, rid, day,
                                    rec.task, rec.hours, rec.labor_code)
                done(table) ==
                    req' = [req EXCEPT ![w] = [@ EXCEPT !.i = @ + 1, !.updated = @ + 1,
                                                        !.writes = Written(w, table, rid, day)]]
            IN  /\ r1.ok => ~LockedByOther(w, rid, day)
                /\ IF r1.ok THEN done(r1.table) /\ cell_seq' = r1.seq
                   \* the UPDATE raises in the aborted transaction; r1.err is why
                   ELSE IF ~r2.ok THEN Raise(w, r1.err) /\ cell_seq' = r1.seq
                   ELSE IF r2.rowcount # 0 THEN done(r2.table) /\ cell_seq' = r1.seq
                   ELSE IF ~r3.ok THEN Raise(w, r3.err) /\ cell_seq' = r3.seq
                   ELSE done(r3.table) /\ cell_seq' = r3.seq
    /\ UNCHANGED <<impvars, rows, day_cells, audit_log, commits, calls>>

\* Leaving the `with engine.begin()` block normally: COMMIT.
Commit(w) ==
    /\ InTx(w)
    /\ req[w].i > Len(req[w].records)
    /\ day_cells' = View(w)
    /\ commits' = Append(commits, w)
    /\ req' = [req EXCEPT ![w] = [@ EXCEPT !.pc = "audit", !.writes = {}]]
    /\ UNCHANGED <<impvars, rows, cell_seq, audit_log, calls>>

\* Two transactions each wait for a row the other has locked: PostgreSQL
\* ends the wait of one of them with an error (deadlock detected).
WaitsFor(w, v) ==
    /\ w # v /\ InTx(w) /\ InTx(v)
    /\ req[w].i <= Len(req[w].records)
    /\ LET rec == req[w].records[req[w].i] IN
       /\ rec.row_id # Null /\ rec.day # Null
       /\ CellsAt(req[v].writes, ValOf(rec.row_id), ValOf(rec.day)) # {}

DeadlockDetected(w) ==
    /\ \E v \in Writers : WaitsFor(w, v) /\ WaitsFor(v, w)
    /\ Raise(w, "DeadlockDetected")
    /\ UNCHANGED <<impvars, rows, day_cells, cell_seq, audit_log, commits, calls>>

\* write_audit(user, "bulk_upsert", {...}) on a connection of its own, after
\* the data transaction has ended; then `return {"updated": updated}`.
\* jsonb = TRUE: the first INSERT (payload::jsonb) succeeds; FALSE: it raises,
\* the connection is rolled back and the plain INSERT succeeds.
AuditEntry(w) == [who |-> w, action |-> "bulk_upsert", updated |-> req[w].updated]

WriteAuditOk(w, jsonb) ==
    /\ req[w].pc = "audit"
    /\ audit_log' = Append(audit_log, AuditEntry(w))
    /\ req' = [req EXCEPT ![w] = [@ EXCEPT !.pc = "done",
                  !.result = [status |-> "ok", updated |-> req[w].updated]]]
    /\ UNCHANGED <<impvars, rows, day_cells, cell_seq, commits, calls>>

\* raw_connection(), the second INSERT or commit() raises: nothing catches it
\* in write_audit (try/finally) nor in bulk_upsert.
WriteAuditFails(w) ==
    /\ req[w].pc = "audit"
    /\ req' = [req EXCEPT ![w] = [@ EXCEPT !.pc = "done", !.cause = "AuditError",
                  !.result = [status |-> "error", updated |-> 0]]]
    /\ UNCHANGED <<impvars, rows, day_cells, cell_seq, audit_log, commits, calls>>

\* ============================================================ GET /block
T_none == <<"(", "n", "o", "n", "e", ")">>

\* TRIM(s) of PostgreSQL: the space character alone is removed, at both ends
RECURSIVE SqlLTrim(_)
SqlLTrim(s) == IF s # <<>> /\ Head(s) = " " THEN SqlLTrim(Tail(s)) ELSE s
RECURSIVE SqlRTrim(_)
SqlRTrim(s) ==
    IF s # <<>> /\ s[Len(s)] = " " THEN SqlRTrim(SubSeq(s, 1, Len(s) - 1)) ELSE s
SqlTrim(s) == SqlRTrim(SqlLTrim(s))

\* COALESCE(NULLIF(TRIM(subsection), ''), '(none)')
SubsectionKey(sub) ==
    IF sub = Null THEN T_none
    ELSE LET t == SqlTrim(ValOf(sub)) IN IF t = <<>> THEN T_none ELSE t

\* WHERE sheet_id = :sid AND LOWER(TRIM(section)) = LOWER(:sec)
RowsOfSection(row_table, sheet_id, section) ==
    {r \in row_table : r.sheet_id = sheet_id /\ Lower(SqlTrim(r.section)) = Lower(section)}

\* The three SELECTs of "pick rows", before ORDER BY
row_meta(row_table, sheet_id, section, subsection) ==
    LET bySection == RowsOfSection(row_table, sheet_id, section) IN
    IF section \in {T_Roof, T_StaffingExpenses} THEN bySection
    ELSE IF subsection # <<>> /\ subsection # T_none
    THEN {r \in bySection : SubsectionKey(r.subsection) = subsection}
    ELSE bySection

\* build_row_dict alone: the cells of the row are never applied
DayFieldsUnfilled(cell_table, rid, start_day, end_day) ==
    [d \in start_day..end_day |-> [task |-> Null, time |-> Null, labor |-> Null]]

\* build_row_dict, then apply_cell for the cells of the row with
\* `day BETWEEN :s AND :e`: the fields day_{d}_task/_time/_labor, d in
\* range(start_day, end_day + 1)
DayFields(cell_table, rid, start_day, end_day) ==
    [d \in start_day..end_day |->
        LET at == CellsAt(cell_table, rid, d) IN
        IF at = {} THEN [task |-> Null, time |-> Null, labor |-> Null]
        ELSE LET c == CHOOSE x \in at : TRUE
             IN  [task |-> c.task,
                  time |-> IF c.hours # Null THEN Some(ValOf(c.hours)) ELSE Null,
                  labor |-> c.labor_code]]

\* sub.strip() if (sub and sub.strip()) else "(none)"; "(none)" for the two
\* single-row sections
sub_out(section, sub) ==
    IF section \in {T_Roof, T_StaffingExpenses} THEN T_none
    ELSE IF sub # Null /\ Strip(ValOf(sub)) # <<>> THEN Strip(ValOf(sub))
    ELSE T_none

\* ORDER BY id DESC
OrderByIdDesc(ids) ==
    LET up == SortedSeq(ids) IN [i \in DOMAIN up |-> up[Len(up) + 1 - i]]

\* ORDER BY id
OrderById(ids) == SortedSeq(ids)

\* app.get_block; start_day and end_day are declared Query(..., ge=1): a
\* request with a smaller value is answered 422 before the body runs.
get_block(row_table, cell_table, sheet_id, section, subsection, start_day, end_day) ==
    IF start_day < 1 \/ end_day < 1 THEN [status |-> "422", rows |-> <<>>]
    ELSE IF start_day > end_day THEN [status |-> "ok", rows |-> <<>>]
    ELSE
      LET meta == row_meta(row_table, sheet_id, section, subsection)
          row_ids == OrderById({r.id : r \in meta})
          row_lookup(rid) ==
              LET r == CHOOSE q \in meta : q.id = rid
              IN  [row_id |-> rid, section |-> r.section,
                   subsection |-> sub_out(section, r.subsection),
                   days |-> DayFields(cell_table, rid, start_day, end_day)]
      IN  [status |-> "ok", rows |-> [i \in DOMAIN row_ids |-> row_lookup(row_ids[i])]]

\* ORDER BY row_order ASC: rows with equal row_order come in the scan order
RECURSIVE OrderByRowOrder(_)
OrderByRowOrder(S) ==
    IF S = {} THEN <<>>
    ELSE LET first == CHOOSE r \in S : \A q \in S \ {r} :
                          \/ r.row_order < q.row_order
                          \/ /\ r.row_order = q.row_order
                             /\ IF scan_order = "asc" THEN r.id < q.id ELSE r.id > q.id
         IN  <<first>> \o OrderByRowOrder(S \ {first})

\* crud.fetch_block
fetch_block(row_table, cell_table, sheet_id, section, subsection, start_day, end_day) ==
    LET found == OrderByRowOrder({r \in row_table :
                                     /\ r.sheet_id = sheet_id
                                     /\ r.section = section
                                     /\ r.subsection # Null
                                     /\ ValOf(r.subsection) = subsection})
    IN  [status |-> "ok",
         rows |-> [i \in DOMAIN found |->
                      [row_id |-> found[i].id, subsection |-> found[i].subsection,
                       days |-> DayFields(cell_table, found[i].id, start_day, end_day)]]]

\* ============================== two importer connections resolving a row
\* Each connection runs get_or_create_row_id once in a transaction of its
\* own (READ COMMITTED: a statement sees what is committed when it starts,
\* and the rows its own transaction has inserted), then commits.
ConnIdle == [pc |-> "idle", section |-> <<>>, subsection |-> Null, ro |-> 0,
             rid |-> 0, inserted |-> {}]

Visible(w) == rows \cup conn[w].inserted

\* psycopg2.connect; the data line that names (section, subsection)
ConnBegin(w, section, subsection) ==
    /\ conn[w].pc = "idle"
    /\ conn' = [conn EXCEPT ![w] = [ConnIdle EXCEPT !.pc = "find", !.section = section,
                                                    !.subsection = subsection]]
    /\ UNCHANGED <<rows, day_cells, cell_seq, audit_log, req, commits, calls,
                   sheets, sheet_seq, row_seq, scan_order, imp, runs>>

\* rid = find_existing_row(...); if rid: return rid
ConnFind(w) ==
    /\ conn[w].pc = "find"
    /\ LET rid == find_existing_row(Visible(w), 1, conn[w].section, conn[w].subsection)
       IN  conn' = [conn EXCEPT ![w] =
                       IF rid # Null /\ ValOf(rid) # 0
                       THEN [@ EXCEPT !.pc = "commit", !.rid = ValOf(rid)]
                       ELSE [@ EXCEPT !.pc = "order"]]
    /\ UNCHANGED <<rows, day_cells, cell_seq, audit_log, req, commits, calls,
                   sheets, sheet_seq, row_seq, scan_order, imp, runs>>

\* ro = next_row_order(conn, sheet_id)
ConnNextOrder(w) ==
    /\ conn[w].pc = "order"
    /\ conn' = [conn EXCEPT ![w] = [@ EXCEPT !.pc = "insert",
                                             !.ro = next_row_order(Visible(w), 1)]]
    /\ UNCHANGED <<rows, day_cells, cell_seq, audit_log, req, commits, calls,
                   sheets, sheet_seq, row_seq, scan_order, imp, runs>>

\* INSERT INTO rows ... RETURNING id
ConnInsert(w) ==
    /\ conn[w].pc = "insert"
    /\ LET ins == SqlInsertRow(Visible(w), row_seq, SheetIds, 1, conn[w].section,
                               conn[w].subsection, conn[w].ro)
       IN  /\ row_seq' = ins.seq
           /\ conn' = [conn EXCEPT ![w] = [@ EXCEPT !.pc = "commit", !.rid = ins.rid,
                                                    !.inserted = ins.rows \ rows]]
    /\ UNCHANGED <<rows, day_cells, cell_seq, audit_log, req, commits, calls,
                   sheets, sheet_seq, scan_order, imp, runs>>

\* conn.commit()
ConnCommit(w) ==
    /\ conn[w].pc = "commit"
    /\ rows' = Visible(w)
    /\ conn' = [conn EXCEPT ![w] = [@ EXCEPT !.pc = "done", !.inserted = {}]]
    /\ UNCHANGED <<day_cells, cell_seq, audit_log, req, commits, calls,
                   sheets, sheet_seq, row_seq, scan_order, imp, runs>>

\* ------------------------------------------------------------ specifications
\* A sheet with one row and its cell of day 1, as an import leaves them.
InitApi ==
    /\ rows = {[id |-> 1, sheet_id |-> 1, section |-> T_Outside,
                subsection |-> Some(T_Entry), row_order |-> 1]}
    /\ day_cells = {[id |-> 1, row_id |-> 1, day |-> 1, task |-> Some(T_Demo),
                     hours |-> Some(45), labor_code |-> Some(T_L1)]}
    /\ cell_seq = 1
    /\ audit_log = <<>>
    /\ req = [w \in Writers |-> Idle]
    /\ commits = <<>>
    /\ calls = [w \in Writers |-> 0]
    /\ sheets = {[id |-> 1, name |-> "Plan"]}
    /\ sheet_seq = 1
    /\ row_seq = 1
    /\ scan_order = "asc"
    /\ imp = ImpIdle
    /\ runs = 0
    /\ conn = [w \in Writers |-> ConnIdle]

\* One client of the API.
NextApi ==
    \/ \E records \in SeqsUpTo(ApiRecords, MaxBatch) : BulkUpsertCall(1, records)
    \/ ExecRecord(1)
    \/ Commit(1)
    \/ \E jsonb \in BOOLEAN : WriteAuditOk(1, jsonb)
    \/ WriteAuditFails(1)

SpecApi == InitApi /\ [][NextApi]_vars

\* Two concurrent clients; client w writes payload PayloadOf(w).
PayloadOf(w) == IF w = 1 THEN PFull ELSE PTask
ConcRecords(w) ==
    {Rec(Some(1), Some(d), PayloadOf(w)) : d \in Days}
        \cup {Rec(Some(2), Some(1), PayloadOf(w))}

NextConc ==
    \E w \in Writers :
        \/ \E records \in SeqsUpTo(ConcRecords(w), MaxBatch) : BulkUpsertCall(w, records)
        \/ ExecRecord(w)
        \/ Commit(w)
        \/ \E jsonb \in BOOLEAN : WriteAuditOk(w, jsonb)
        \/ WriteAuditFails(w)
        \/ DeadlockDetected(w)

SpecConc == InitApi /\ [][NextConc]_vars

\* One client whose records may carry hours below zero: the body is a plain
\* dict (Dict[str, Any]), no validator of schemas.BulkCell is applied to it,
\* and the hours column is a Float without a CHECK constraint.
PNegative == [task |-> Some(T_Prep), hours |-> Some(0 - 45), labor_code |-> Null]
SignedRecords == {Rec(Some(1), Some(d), p) : d \in Days, p \in {PFull, PNegative}}

NextSigned ==
    \/ \E records \in SeqsUpTo(SignedRecords, MaxBatch) : BulkUpsertCall(1, records)
    \/ ExecRecord(1)
    \/ Commit(1)
    \/ \E jsonb \in BOOLEAN : WriteAuditOk(1, jsonb)
    \/ WriteAuditFails(1)

SpecSigned == InitApi /\ [][NextSigned]_vars

\* The importers, one run at a time, on the sheet an earlier import has left
\* with one row and its cell of day 1.
SheetArgs == {1, 2}
SheetNames == {"Plan"}

InitImport ==
    /\ sheets = {[id |-> 1, name |-> "Plan"]}
    /\ sheet_seq = 1
    /\ rows = {[id |-> 1, sheet_id |-> 1, section |-> T_Outside,
                subsection |-> Some(T_Entry), row_order |-> 1]}
    /\ row_seq = 1
    /\ day_cells = {[id |-> 1, row_id |-> 1, day |-> 1, task |-> Some(T_Demo),
                     hours |-> Some(45), labor_code |-> Some(T_L1)]}
    /\ cell_seq = 1
    /\ audit_log = <<>>
    /\ req = [w \in Writers |-> Idle]
    /\ commits = <<>>
    /\ calls = [w \in Writers |-> 0]
    /\ scan_order \in {"asc", "desc"}
    /\ imp = ImpIdle
    /\ runs = 0
    /\ conn = [w \in Writers |-> ConnIdle]

NextImport ==
    \/ \E sheet \in SheetArgs, h \in {Null} \cup {Some(x) : x \in CsvHeaders}, dry \in BOOLEAN :
           BackfillStart(sheet, h, dry)
    \/ \E row \in CsvLines : BackfillLine(row)
    \/ BackfillFinish
    \/ \E name \in SheetNames, h \in {Null} \cup {Some(x) : x \in CsvHeaders} :
           ImportCsvStart(name, h)
    \/ \E r \in CsvLines : ImportCsvLine(r)
    \/ \E audit_fails \in BOOLEAN : ImportCsvEnd(audit_fails)

SpecImport == InitImport /\ [][NextImport]_vars

\* The importers on a file of two days: `Name,Day 1,Time 1,Labor 1,Day 2,
\* Time 2,Labor 2`. The data lines carry the cells of day 1 alone; those of
\* day 2 are missing (csv.reader returns the short row, pd.read_csv NaN).
T_Day2 == <<"D", "a", "y", " ", "2">>
T_Time2 == <<"T", "i", "m", "e", " ", "2">>
T_Labor2 == <<"L", "a", "b", "o", "r", " ", "2">>
WideHeader == <<T_Name, T_Day1, T_Time1, T_Labor1, T_Day2, T_Time2, T_Labor2>>
\* One more line, whose labor code does not fit the labor_code column.
T_LongLabor == [i \in 1..(LaborMaxLen + 1) |-> "L"]
WideLines == CsvLines \cup { <<T_Hall, T_Demo, <<>>, T_LongLabor>> }

NextWide ==
    \/ \E sheet \in SheetArgs, dry \in BOOLEAN : BackfillStart(sheet, Some(WideHeader), dry)
    \/ \E row \in WideLines : BackfillLine(row)
    \/ BackfillFinish
    \/ \E name \in SheetNames : ImportCsvStart(name, Some(WideHeader))
    \/ \E r \in WideLines : ImportCsvLine(r)
    \/ \E audit_fails \in BOOLEAN : ImportCsvEnd(audit_fails)

SpecWide == InitImport /\ [][NextWide]_vars

\* The importers on a file whose section labels are not written as the
\* registry writes them: other casing, blanks and punctuation around the name,
\* and "First Floor" for "1st Floor".
T_OutsideDrift == <<" ", "O", "U", "T", "S", "I", "D", "E", ":">>
T_RoofDrift == <<"r", "o", "o", "f", ".">>
T_FirstFloor == <<"F", "i", "r", "s", "t", " ", "F", "l", "o", "o", "r">>
DayHeader == <<T_Name, T_Day1, T_Time1, T_Labor1>>
DriftLines ==
    { <<T_OutsideDrift, <<>>, <<>>, <<>>>>,
      <<T_RoofDrift, <<>>, <<>>, <<>>>>,
      <<T_FirstFloor, <<>>, <<>>, <<>>>>,
      <<T_Entry, T_Demo, T_4p5, T_L1>> }

NextDrift ==
    \/ \E dry \in BOOLEAN : BackfillStart(1, Some(DayHeader), dry)
    \/ \E row \in DriftLines : BackfillLine(row)
    \/ BackfillFinish
    \/ \E name \in SheetNames : ImportCsvStart(name, Some(DayHeader))
    \/ \E r \in DriftLines : ImportCsvLine(r)
    \/ \E audit_fails \in BOOLEAN : ImportCsvEnd(audit_fails)

SpecDrift == InitImport /\ [][NextDrift]_vars

\* Two importer connections at once, each resolving one row of sheet 1.
RaceSections == {T_Outside, T_Roof}
RaceSubsections == {Null, Some(T_Entry), Some(T_Hall)}

NextRace ==
    \E w \in Writers :
        \/ \E section \in RaceSections, subsection \in RaceSubsections :
               ConnBegin(w, section, subsection)
        \/ ConnFind(w)
        \/ ConnNextOrder(w)
        \/ ConnInsert(w)
        \/ ConnCommit(w)

SpecRace == InitImport /\ [][NextRace]_vars

\* ------------------------------------------------------------------- claims
HasKey(rec) == rec.row_id # Null /\ rec.day # Null
SameKey(a, b) == a.row_id = b.row_id /\ a.day = b.day
Payload(c) == [task |-> c.task, hours |-> c.hours, labor_code |-> c.labor_code]

\* `table` holds, for every record of the batch, exactly one cell at the
\* record's (row_id, day), with the fields of the last record for it.
Applied(table, records) ==
    \A i \in 1..Len(records) :
        LET rec == records[i]
            last == CHOOSE j \in i..Len(records) :
                        /\ SameKey(records[j], rec)
                        /\ \A k \in (j+1)..Len(records) : ~SameKey(records[k], rec)
            at == CellsAt(table, ValOf(rec.row_id), ValOf(rec.day))
        IN  HasKey(rec) /\ Cardinality(at) = 1
                /\ \A c \in at : Payload(c) = Payload(records[last])

SomeRecordFails(records) == \E i \in 1..Len(records) : records[i] \in BadRecords

\* C1: a bulk_upsert batch is all-or-nothing: when a record fails, the store is
\* what it was before the call and the caller gets an error; when none fails,
\* all N records are applied and the caller is returned the count N.
C1_AllOrNothing ==
    (req[1].pc = "done" /\ req[1].records # <<>>) =>
        IF SomeRecordFails(req[1].records)
        THEN day_cells = req[1].pre /\ req[1].result.status = "error"
        ELSE /\ Applied(day_cells, req[1].records)
             /\ req[1].result = [status |-> "ok", updated |-> Len(req[1].records)]

\* The part of C1 the data transaction alone decides: a failed record leaves
\* the store as before the call, and otherwise every record is applied.
BulkUpsertAtomic ==
    (req[1].pc = "done" /\ req[1].records # <<>>) =>
        IF SomeRecordFails(req[1].records)
        THEN day_cells = req[1].pre /\ req[1].result.status = "error"
        ELSE Applied(day_cells, req[1].records)

\* C2: two concurrent writers upsert the same (row_id, day) with different
\* payloads: once both requests are over the cell holds the payload of the
\* transaction that committed last, and no writer was shown a conflict error.
WritesKey(w, d) ==
    \E i \in 1..Len(req[w].records) : req[w].records[i] = Rec(Some(1), Some(d), PayloadOf(w))
BothOver == \A w \in Writers : req[w].pc = "done" /\ req[w].records # <<>>
Committed(w) == \E i \in 1..Len(commits) : commits[i] = w
\* The writer of cell (1, d) whose transaction committed last.
LastCommitted(d) ==
    LET idx == {i \in 1..Len(commits) : WritesKey(commits[i], d)}
    IN  commits[CHOOSE i \in idx : \A j \in idx : j <= i]

LastWriteWins ==
    \A d \in Days :
        (BothOver /\ WritesKey(1, d) /\ WritesKey(2, d)
                  /\ (Committed(1) \/ Committed(2))) =>
            /\ Cardinality(CellsAt(day_cells, 1, d)) = 1
            /\ \A c \in CellsAt(day_cells, 1, d) : Payload(c) = PayloadOf(LastCommitted(d))

NoConflictError == \A w \in Writers : req[w].cause # "DeadlockDetected"

C2_LastWriteWinsNoConflictError ==
    \A d \in Days :
        (BothOver /\ WritesKey(1, d) /\ WritesKey(2, d)) =>
            NoConflictError /\ LastWriteWins

\* C3: the upsert is idempotent: in every store a transaction sees, whatever
\* the record, when its upsert succeeds a second upsert of the same record
\* succeeds too and leaves the whole table as the first left it, with one cell
\* at the record's (row_id, day).
C3_UpsertIdempotent ==
    \A rec \in {x \in ApiRecords : HasKey(x)} :
        LET rid == ValOf(rec.row_id)
            day == ValOf(rec.day)
            once == SqlUpsertCell(View(1), cell_seq, RowIds, rid, day,
                                  rec.task, rec.hours, rec.labor_code)
            twice == SqlUpsertCell(once.table, once.seq, RowIds, rid, day,
                                   rec.task, rec.hours, rec.labor_code)
        IN  once.ok =>
                /\ twice.ok
                /\ twice.table = once.table
                /\ Cardinality(CellsAt(twice.table, rid, day)) = 1

\* A request has upserted the same record twice in succession, on a cell
\* that was stored before.
C3_Witness ==
    /\ InTx(1) /\ req[1].i = 3
    /\ req[1].records[1] = req[1].records[2]
    /\ req[1].records[1] = Rec(Some(1), Some(1), PTask)
    /\ \E c \in View(1) : c.row_id = 1 /\ c.day = 1 /\ Payload(c) = PTask

\* C4: a successful upsert replaces the three fields of its own cell by the
\* record's (a null or omitted field becomes NULL) and changes no other cell.
UpsertStep(w) == InTx(w) /\ req'[w].pc = "tx" /\ req'[w].i = req[w].i + 1

C4_FullReplaceOwnCell ==
    [][\A w \in Writers : UpsertStep(w) =>
          LET rec == req[w].records[req[w].i]
              rid == ValOf(rec.row_id)
              day == ValOf(rec.day)
          IN  /\ Cardinality(CellsAt(View(w)', rid, day)) = 1
              /\ \A c \in CellsAt(View(w)', rid, day) : Payload(c) = Payload(rec)
              /\ View(w)' \ CellsAt(View(w)', rid, day)
                     = View(w) \ CellsAt(View(w), rid, day)]_vars

\* A cell with a task, hours and a labor code has been overwritten to all NULL.
C4_Witness ==
    /\ InTx(1) /\ req[1].i > 1
    /\ Payload(req[1].records[req[1].i - 1]) = PNull
    /\ \E c \in req[1].pre : c.row_id = 1 /\ c.day = 1 /\ Payload(c) = PFull
    /\ \E c \in View(1) : c.row_id = 1 /\ c.day = 1 /\ Payload(c) = PNull

\* C5: the row resolver is idempotent: on every table of rows a run sees and
\* for every (sheet, section, subsection), when a call returns, a second call
\* with the same arguments returns the same row id, creates no row and changes
\* no row_order.
ResolveSections == {T_Outside, T_Roof}
ResolveSubsections == {Null, Some(T_Entry), Some(T_Hall)}
RowsSeen == IF imp.pc = "scan" THEN imp.tx_rows ELSE rows

C5_ResolveRowIdempotent ==
    \A sheet \in SheetArgs, section \in ResolveSections, subsection \in ResolveSubsections :
        LET once == get_or_create_row_id(RowsSeen, row_seq, SheetIds, sheet,
                                         section, subsection)
            twice == get_or_create_row_id(once.rows, once.seq, SheetIds, sheet,
                                          section, subsection)
        IN  once.ok =>
                /\ twice.ok
                /\ twice.rid = once.rid
                /\ twice.rows = once.rows
                /\ twice.seq = once.seq

\* A backfill run has resolved (Outside, Entry), the row an earlier import
\* created, and written the line's task to that row; no row was added.
C5_Witness ==
    /\ imp.tool = "backfill" /\ imp.pc = "scan" /\ ~imp.dry
    /\ imp.current_section = Some(T_Outside)
    /\ imp.tx_rows = rows /\ row_seq = 1
    /\ \E c \in imp.tx_cells : c.row_id = 1 /\ c.day = 1 /\ c.task = Some(T_Prep)

\* C6: whatever the import runs and their files, a sheet holds at most one
\* row for each (section, subsection).
C6_RowUniqueness ==
    \A r1, r2 \in rows :
        (r1.sheet_id = r2.sheet_id /\ r1.section = r2.section
            /\ r1.subsection = r2.subsection) => r1 = r2

\* C7: a sheet holds at most one row of section Roof and one of section
\* Staffing expenses, and that row has no subsection: the label of a line
\* under the section is not taken for one, and the cells of every such line
\* are those of that row.
C7_SingletonSections ==
    \A r1 \in rows :
        IsSingleRow(Some(r1.section)) =>
            /\ r1.subsection = Null
            /\ \A r2 \in rows :
                   (r2.sheet_id = r1.sheet_id /\ r2.section = r1.section) => r2 = r1

\* C8: a run on a file whose header row has no "Day N" column ends with an
\* error and leaves sheets, rows and day_cells as they were before it.
NoDayColumn == \A i \in DOMAIN imp.header : DAY_RE(imp.header[i]) = Null

C8_FailFastNoDayColumn ==
    (imp.pc = "done" /\ imp.header # <<>> /\ NoDayColumn) =>
        imp.exit = "error" /\ Store = imp.pre

\* The API's part of C9 (app.bulk_upsert): when write_audit fails after a
\* batch whose records all applied, the cells of the batch are committed.
C9_AuditFailureKeepsData ==
    (req[1].pc = "done" /\ req[1].cause = "AuditError") =>
        /\ Applied(day_cells, req[1].records)
        /\ req[1].records # <<>>

C9_Witness ==
    /\ req[1].pc = "done" /\ req[1].cause = "AuditError"
    /\ day_cells # req[1].pre

\* C9, for the importer's bulk upsert (crud.bulk_upsert_cells): when its
\* records all applied and the audit write then failed, the cells of the
\* batch are committed in the store.
C9_AuditFailureNeverUndoesDataWrite ==
    (imp.pc = "done" /\ imp.tool = "import_csv" /\ imp.exit = "ok"
        /\ imp.audit = "failed") =>
            \A i \in DOMAIN imp.records :
                \E c \in day_cells : /\ c.row_id = imp.records[i].row_id
                                     /\ c.day = imp.records[i].day
                                     /\ Payload(c) = Payload(imp.records[i])

\* C10: when every record of a batch applies, the caller is returned the count
\* of applied records whether or not the audit write succeeds.
C10_AuditFailureNotPropagated ==
    (req[1].pc = "done" /\ req[1].records # <<>> /\ Applied(day_cells, req[1].records)
        /\ ~SomeRecordFails(req[1].records)) =>
            req[1].result = [status |-> "ok", updated |-> Len(req[1].records)]

\* C11: bulk_upsert with an empty (or missing) records list returns updated=0,
\* leaves the day_cells store unchanged and writes no audit entry: the call is
\* answered in the step that receives it, and nothing of the request runs
\* afterwards.
EmptyCall == calls'[1] # calls[1] /\ req'[1].records = <<>>
EmptyCallOver ==
    req[1].pc = "done" /\ req[1].records = <<>> /\ req[1].result.status = "ok"
C11_EmptyBatchNoWriteNoAudit ==
    [][/\ EmptyCall =>
            /\ req'[1].pc = "done"
            /\ req'[1].result = [status |-> "ok", updated |-> 0]
            /\ day_cells' = day_cells /\ cell_seq' = cell_seq
            /\ audit_log' = audit_log
       /\ (EmptyCallOver /\ calls'[1] = calls[1]) =>
            day_cells' = day_cells /\ audit_log' = audit_log]_vars

C11_Witness ==
    /\ calls[1] = 1 /\ req[1].pc = "done" /\ req[1].records = <<>>
    /\ req[1].result = [status |-> "ok", updated |-> 0]
    /\ day_cells = req[1].pre /\ audit_log = <<>>

\* C12: import/read round trip: once backfill_from_csv has taken a line in,
\* reading the block of the same sheet, section and day gives, for the line's
\* row and every day whose source triple is not entirely empty, exactly the
\* supplied task, hours and labor code: an empty field reads back as null, a
\* numeric hours text as the same number.
SourceText(row, cols, d) == IF d \in DOMAIN cols THEN CellAt(row, cols[d]) ELSE <<>>
SourceTriple(row, d) ==
    LET t == SourceText(row, imp.day_cols, d)
        h == SourceText(row, imp.time_cols, d)
        l == SourceText(row, imp.labor_cols, d)
    IN  [task |-> IF t = <<>> THEN Null ELSE Some(t),
         time |-> IF h = <<>> THEN Null ELSE Float(h),
         labor |-> IF l = <<>> THEN Null ELSE Some(l)]
EmptyTriple == [task |-> Null, time |-> Null, labor |-> Null]

LineTakenIn(row) ==
    LET name == norm_spaces(CellAt(row, name_col_idx)) IN
    /\ BackfillLine(row)
    /\ ~imp.dry /\ imp'.pc = "scan"
    /\ imp.current_section # Null
    /\ ~is_section_label(name)
    /\ IsSingleRow(imp.current_section) \/ name # <<>>

ReadsBack(row_table, cell_table, row, d) ==
    LET name == norm_spaces(CellAt(row, name_col_idx))
        block == get_block(row_table, cell_table, imp.sheet, ValOf(imp.current_section),
                           <<>>, d, d)
    IN  \E i \in DOMAIN block.rows :
            /\ IsSingleRow(imp.current_section) \/ block.rows[i].subsection = name
            /\ block.rows[i].days[d] = SourceTriple(row, d)

C12_ImportReadRoundTrip ==
    [][\A row \in CsvLines : LineTakenIn(row) =>
           \A d \in DOMAIN imp.day_cols :
               SourceTriple(row, d) # EmptyTriple =>
                   ReadsBack(imp'.tx_rows, imp'.tx_cells, row, d)]_vars

\* C13: row_order is stable: a row a run creates gets the largest row_order of
\* its sheet plus one (1 in a sheet without rows); over every import each
\* stored row keeps its id and its row_order, and the rows an import adds
\* get row_order values strictly above those of the sheet's stored rows.
RowCreated(q) ==
    q.row_order = next_row_order(imp.tx_rows, q.sheet_id)
C13_RowOrderStable ==
    [][/\ (imp.pc = "scan" /\ imp'.pc = "scan") =>
            \A q \in imp'.tx_rows \ imp.tx_rows : RowCreated(q)
       /\ \A r \in rows : \E q \in rows' : q.id = r.id /\ q.row_order = r.row_order
       /\ \A q \in rows' : (\A r \in rows : r.id # q.id) =>
            \A r \in rows : r.sheet_id = q.sheet_id => q.row_order > r.row_order]_vars

\* C14: rows and day cells are never deleted: a row or a cell that is in the
\* store is in the store after every import step (a cell may be overwritten
\* in place).
C14_NothingDeleted ==
    [][/\ \A r \in rows : \E q \in rows' : q.id = r.id
       /\ \A c \in day_cells : CellsAt(day_cells', c.row_id, c.day) # {}]_vars

\* The arguments of the block requests the claims consider: a sheet with rows
\* and one without, a section with subsections and a single-row one, and for
\* the subsection a stored name, the same name in another case and with a
\* blank before it, a name no row has, "(none)" and the empty default.
T_entry == Lower(T_Entry)
T_PaddedEntry == <<" ">> \o T_Entry
ReadSheets == {1, 2}
ReadSections == {T_Outside, T_Roof}
ReadSubsections == {<<>>, T_none, T_Entry, T_entry, T_PaddedEntry, T_Hall}
\* For the claims about what a block holds: the default, which selects the
\* whole section, and a stored name.
BlockSubsections == {<<>>, T_Entry}

\* C15: a block request with start_day > end_day is answered with an empty
\* row set and never an error, by get_block and by fetch_block, for every
\* sheet, section and subsection, whether or not rows match.
C15_EmptyRangeEmptyBlock ==
    \A sheet \in ReadSheets, section \in ReadSections, subsection \in ReadSubsections :
        \A start_day \in Days, end_day \in Days :
            start_day > end_day =>
                /\ get_block(rows, day_cells, sheet, section, subsection,
                             start_day, end_day) = [status |-> "ok", rows |-> <<>>]
                /\ fetch_block(rows, day_cells, sheet, section, subsection,
                               start_day, end_day).rows = <<>>

\* The part of C15 that is about GET /block alone.
GetBlockEmptyRange ==
    \A sheet \in ReadSheets, section \in ReadSections, subsection \in ReadSubsections :
        \A start_day \in Days, end_day \in Days :
            start_day > end_day =>
                get_block(rows, day_cells, sheet, section, subsection,
                          start_day, end_day) = [status |-> "ok", rows |-> <<>>]

\* C16: in every reachable store, the rows a block request returns are in
\* row_order ascending, rows of equal row_order in id ascending; this holds
\* of get_block and of fetch_block.
RowOrderOf(rid) == (CHOOSE r \in rows : r.id = rid).row_order
InDisplayOrder(block_rows) ==
    \A i \in DOMAIN block_rows : \A j \in DOMAIN block_rows :
        i < j =>
            LET a == block_rows[i].row_id
                b == block_rows[j].row_id
            IN  \/ RowOrderOf(a) < RowOrderOf(b)
                \/ RowOrderOf(a) = RowOrderOf(b) /\ a < b
ShapedRow(block_row, start_day, end_day) ==
    /\ DOMAIN block_row.days = start_day..end_day
    /\ \A d \in start_day..end_day :
           LET at == CellsAt(day_cells, block_row.row_id, d) IN
           IF at = {}
           THEN block_row.days[d] = [task |-> Null, time |-> Null, labor |-> Null]
           ELSE \A c \in at : /\ block_row.days[d].task = c.task
                              /\ block_row.days[d].time = c.hours
                              /\ block_row.days[d].labor = c.labor_code
C17_BlockShape ==
    \A sheet \in ReadSheets, section \in ReadSections, subsection \in BlockSubsections :
        \A start_day \in Days, end_day \in Days :
            start_day <= end_day =>
                LET got == get_block(rows, day_cells, sheet, section, subsection,
                                     start_day, end_day).rows
                    fetched == fetch_block(rows, day_cells, sheet, section, subsection,
                                           start_day, end_day).rows
                IN  /\ \A i \in DOMAIN got : ShapedRow(got[i], start_day, end_day)
                    /\ \A i \in DOMAIN fetched : ShapedRow(fetched[i], start_day, end_day)

\* A block over days 1..2 of a row whose day-1 cell a request has rewritten
\* and whose day 2 has no cell.
C17_Witness ==
    LET got == get_block(rows, day_cells, 1, T_Outside, T_Entry, 1, 2).rows
    IN  /\ Len(got) = 1
        /\ \E c \in CellsAt(day_cells, 1, 1) : Payload(c) = PTask
        /\ got[1].days[1] = [task |-> Some(T_Prep), time |-> Null, labor |-> Null]
        /\ CellsAt(day_cells, 1, 2) = {}
        /\ got[1].days[2] = [task |-> Null, time |-> Null, labor |-> Null]

\* C18: the subsection lookup of a block request is case- and
\* whitespace-insensitive: under a section with subsections, a requested
\* subsection that differs from a stored row's only by letter case or by
\* blanks at its ends selects that row; the subsection shown is the stored
\* value trimmed, "(none)" for a blank or null one, and always "(none)" under
\* Roof and Staffing expenses.
SameSubsection(requested, stored) == Lower(Strip(requested)) = Lower(Strip(stored))
BlockRowIds(block) == {block.rows[i].row_id : i \in DOMAIN block.rows}
SubsectionShown(r) ==
    IF IsSingleRow(Some(r.section)) THEN T_none
    ELSE IF r.subsection = Null \/ Strip(ValOf(r.subsection)) = <<>> THEN T_none
    ELSE Strip(ValOf(r.subsection))
C18_SubsectionLookupInsensitive ==
    \A sheet \in ReadSheets, section \in ReadSections, subsection \in ReadSubsections :
        LET block == get_block(rows, day_cells, sheet, section, subsection, 1, 1) IN
        /\ \A r \in rows :
               ( /\ r.sheet_id = sheet /\ r.section = section
                 /\ ~IsSingleRow(Some(section))
                 /\ r.subsection # Null /\ Strip(ValOf(r.subsection)) # <<>>
                 /\ SameSubsection(subsection, ValOf(r.subsection)) )
               => r.id \in BlockRowIds(block)
        /\ \A i \in DOMAIN block.rows :
               \E r \in rows : /\ r.id = block.rows[i].row_id
                               /\ block.rows[i].subsection = SubsectionShown(r)

\* The part of C18 that is about the subsection shown.
SubsectionDisplay ==
    \A sheet \in ReadSheets, section \in ReadSections, subsection \in ReadSubsections :
        LET block == get_block(rows, day_cells, sheet, section, subsection, 1, 1) IN
        \A i \in DOMAIN block.rows :
            \E r \in rows : /\ r.id = block.rows[i].row_id
                            /\ block.rows[i].subsection = SubsectionShown(r)

\* C19: stored hours are never negative: in every reachable state the hours
\* of every day cell are NULL or a number that is at least zero.
C19_HoursNeverNegative ==
    \A c \in day_cells :
        c.hours = Null \/ (ValOf(c.hours) # NaN /\ ValOf(c.hours) >= 0)

\* C20: an import skips a line whose label cell is empty while the current
\* section is not Roof or Staffing expenses: the line creates no row and
\* writes no cell, whatever its day, time and labor cells hold.
BlankLabel(row) == norm_spaces(CellAt(row, name_col_idx)) = <<>>
UnderSubsectionedSection ==
    imp.pc = "scan" /\ imp.current_section # Null /\ ~IsSingleRow(imp.current_section)
LineSkipped ==
    /\ imp'.tx_rows = imp.tx_rows
    /\ imp'.tx_cells = imp.tx_cells
    /\ imp'.records = imp.records
C20_BlankLabelLineSkipped ==
    [][\A row \in CsvLines :
          (BlankLabel(row) /\ UnderSubsectionedSection /\ imp'.pc = "scan"
              /\ (BackfillLine(row) \/ ImportCsvLine(row))) => LineSkipped]_vars

\* The part of C20 that is about backfill_from_csv alone.
BackfillSkipsBlankLabel ==
    [][\A row \in CsvLines :
          (BlankLabel(row) /\ UnderSubsectionedSection /\ BackfillLine(row))
              => LineSkipped]_vars

\* C21: an import never writes an empty cell: a run issues the upsert of a
\* (row, day) only when the line holds a task, hours or a labor code for that
\* day; a line whose fields are empty for a day creates or overwrites no cell
\* of that day.
Blank(text) == norm_spaces(text) = <<>>
BackfillSourceEmpty(row, d) ==
    /\ Blank(SourceText(row, imp.day_cols, d))
    /\ Blank(SourceText(row, imp.time_cols, d))
    /\ Blank(SourceText(row, imp.labor_cols, d))
ImportSourceEmpty(row, d) ==
    \A i \in DOMAIN imp.triplets :
        imp.triplets[i].d = d =>
            /\ Blank(CellAt(row, imp.triplets[i].dc))
            /\ imp.triplets[i].tc # Null => Blank(CellAt(row, ValOf(imp.triplets[i].tc)))
            /\ imp.triplets[i].lc # Null => Blank(CellAt(row, ValOf(imp.triplets[i].lc)))
C21_NoEmptyCellWritten ==
    [][\A row \in WideLines :
          /\ (BackfillLine(row) /\ imp'.pc = "scan") =>
                 \A c \in imp'.tx_cells \ imp.tx_cells : ~BackfillSourceEmpty(row, c.day)
          /\ (ImportCsvLine(row) /\ imp'.pc = "scan") =>
                 \A i \in (Len(imp.records) + 1)..Len(imp'.records) :
                     ~ImportSourceEmpty(row, imp'.records[i].day)]_vars

\* The part of C21 that is about backfill_from_csv alone.
BackfillWritesNoEmptyCell ==
    [][\A row \in WideLines :
          (BackfillLine(row) /\ imp'.pc = "scan") =>
              \A c \in imp'.tx_cells \ imp.tx_cells : ~BackfillSourceEmpty(row, c.day)]_vars

\* C22: a section-header line creates no row: on a line whose label
\* canonicalizes to a registry section name the scan only switches the current
\* section; it creates no row and writes no cell, whichever section it names.
SectionLine(row) == is_section_label(norm_spaces(CellAt(row, name_col_idx)))
C22_SectionLineCreatesNoRow ==
    [][\A row \in CsvLines :
          (SectionLine(row) /\ imp'.pc = "scan"
              /\ (BackfillLine(row) \/ ImportCsvLine(row))) => LineSkipped]_vars

\* The part of C22 that holds: the header line of a section with subsections
\* creates nothing, and no header line writes a cell.
SectionLineWritesNoCell ==
    [][\A row \in CsvLines :
          (SectionLine(row) /\ imp'.pc = "scan"
              /\ (BackfillLine(row) \/ ImportCsvLine(row))) =>
              /\ imp'.tx_cells = imp.tx_cells /\ imp'.records = imp.records
              /\ ~IsSingleRow(imp'.current_section) => imp'.tx_rows = imp.tx_rows]_vars

\* C23: stored sections are canonical: after every step of an import, every
\* row of the store and of the run's transaction has for its section one of
\* the 7 registry strings, character for character, however the label of the
\* file is written; and a line that comes before the first recognized section
\* header creates no row and writes no cell.
RegistrySections == Range(PRIMARY_SECTIONS)
BeforeFirstSection ==
    /\ imp.pc = "scan" /\ imp.current_section = Null
    /\ imp'.pc = "scan" /\ imp'.current_section = Null
C23_StoredSectionsCanonical ==
    [][/\ \A r \in rows' \cup imp'.tx_rows : r.section \in RegistrySections
       /\ BeforeFirstSection => LineSkipped]_vars

\* A run has committed a row of section Outside that it created under the
\* header the file writes " OUTSIDE:".
C23_Witness ==
    /\ \E r \in rows : r.id # 1 /\ r.section = T_Outside
    /\ imp.pc = "done" /\ imp.exit = "ok"

\* C24: an import run is one atomic transaction: while the run scans, the
\* store is what it was before the run; a run that fails leaves the store as
\* it was before it; a run that succeeds (and is not a dry run) makes all the
\* rows and cells it wrote visible at its commit.
RunFails == imp.pc = "scan" /\ imp'.pc = "done" /\ imp'.exit = "error"
RunSucceeds == imp.pc = "scan" /\ imp'.pc = "done" /\ imp'.exit = "ok" /\ ~imp.dry
StoreAsBefore(pre) == rows' = pre.rows /\ day_cells' = pre.day_cells /\ sheets' = pre.sheets
RecordsVisible ==
    \A i \in DOMAIN imp.records :
        \E c \in day_cells' : /\ c.row_id = imp.records[i].row_id
                              /\ c.day = imp.records[i].day
                              /\ Payload(c) = Payload(imp.records[i])
FailedRunLeavesStore ==
    /\ imp'.pc = "scan" => StoreAsBefore(imp'.pre)
    /\ RunFails => StoreAsBefore(imp.pre)
C24_ImportRunAtomic ==
    [][/\ FailedRunLeavesStore
       /\ RunSucceeds => /\ imp.tx_rows \subseteq rows'
                         /\ imp.tx_cells \subseteq day_cells'
                         /\ RecordsVisible]_vars

\* The part of C24 that is about the failed and the unfinished run.
ImportRollsBack == [][FailedRunLeavesStore]_vars

\* C25: row resolution is race-free: when two importer transactions resolve
\* the same (sheet, section, subsection) concurrently, after both have
\* committed the store holds at most one row for it, and no two rows of the
\* sheet have the same row_order.
BothResolved == \A w \in Writers : conn[w].pc = "done"
SameCombination ==
    conn[1].section = conn[2].section /\ conn[1].subsection = conn[2].subsection
C25_RowResolutionRaceFree ==
    (BothResolved /\ SameCombination) =>
        /\ Cardinality({r \in rows : /\ r.sheet_id = 1
                                     /\ r.section = conn[1].section
                                     /\ r.subsection = conn[1].subsection}) <= 1
        /\ \A r \in rows : \A q \in rows :
               (r.sheet_id = q.sheet_id /\ r.row_order = q.row_order) => r.id = q.id

\* C26: a dry run changes nothing: when backfill_from_csv runs with --dry the
\* store (rows and day_cells) stays as it was before the run at every step up
\* to the end of the run, no cell upsert is issued, and on every line the
\* count of detected cells grows by the number of cells a non-dry run of the
\* same line would upsert.
DryRun == imp.pc = "scan" /\ imp.tool = "backfill" /\ imp.dry
LineTakesCells(row) ==
    LET name == norm_spaces(CellAt(row, name_col_idx)) IN
    /\ ~is_section_label(name)
    /\ imp.current_section # Null
    /\ IsSingleRow(imp.current_section) \/ name # <<>>
LineRowIds(row) ==
    IF IsSingleRow(imp.current_section) THEN imp.single_row_id
    ELSE {r.id : r \in {q \in imp'.tx_rows :
                          /\ q.sheet_id = imp.sheet
                          /\ q.section = ValOf(imp.current_section)
                          /\ q.subsection = Some(norm_spaces(CellAt(row, name_col_idx)))}}
StoreAccepts(row, d) ==
    \E rid \in LineRowIds(row) :
        upsert_cell(imp.tx_cells, cell_seq, {r.id : r \in imp'.tx_rows}, rid, d,
                    Some(norm_spaces(SourceText(row, imp.day_cols, d))),
                    parse_float(SourceText(row, imp.time_cols, d)),
                    IF d \in DOMAIN imp.labor_cols
                    THEN Some(norm_spaces(SourceText(row, imp.labor_cols, d)))
                    ELSE Null).ok
CellsIssued(row) ==
    IF LineTakesCells(row)
    THEN {d \in DOMAIN imp.day_cols : ~BackfillSourceEmpty(row, d)}
    ELSE {}
CellsUpserted(row) == {d \in CellsIssued(row) : StoreAccepts(row, d)}
DryRunLeavesStore ==
    DryRun => /\ rows' = imp.pre.rows /\ day_cells' = imp.pre.day_cells
              /\ rows' = rows /\ day_cells' = day_cells
              /\ imp'.pc = "scan" => imp'.tx_cells = imp.pre.day_cells
C26_DryRunChangesNothing ==
    [][/\ DryRunLeavesStore
       /\ \A row \in WideLines :
              (DryRun /\ BackfillLine(row) /\ imp'.pc = "scan") =>
                  imp'.cells_detected - imp.cells_detected
                      = Cardinality(CellsUpserted(row))]_vars

\* The parts of C26 that hold: the store of a dry run, and the count of a dry
\* run as the number of upserts a non-dry run issues, accepted or not.
DryRunStoreUnchanged == [][DryRunLeavesStore]_vars
DryRunCountsIssued ==
    [][\A row \in WideLines :
          (BackfillLine(row) /\ imp'.pc = "scan") =>
              /\ imp'.cells_detected - imp.cells_detected = Cardinality(CellsIssued(row))
              /\ ~imp.dry => \A d \in CellsIssued(row) : \A rid \in LineRowIds(row) :
                                 CellsAt(imp'.tx_cells, rid, d) # {}]_vars

====
